---- MODULE Spec2Model ----
(***************************************************************************)
(* A model of find_project (src/src/main.rs): the configuration file is    *)
(* parsed into source directories, each is scanned to a fixed depth for    *)
(* project directories, the list is handed to fzf, and the chosen project  *)
(* is opened in tmux (switch / attach / new-session).                      *)
(*                                                                         *)
(* Text (paths, configuration lines, process output) is a sequence of      *)
(* one-character strings; BAD stands for a byte that is not valid UTF-8.   *)
(***************************************************************************)
EXTENDS Integers, Sequences, FiniteSets, TLC

\* ------------------------------------------------------------------ bounds

\* Entries of the file system (source roots included).
MaxNodes == 4
\* Lines of the configuration file.
MaxLines == 1
\* Characters fzf writes to its standard output.
MaxOut == 3
\* Lines tmux list-sessions writes.
MaxSessLines == 1

\* -------------------------------------------------------- program constants

\* search_depth of the default source directory.
DEFAULT_DEPTH == 2
\* fzf's exit code when the user cancels.
FZF_CANCELLED == 130
\* The largest u8.
U8_MAX == 255

\* -------------------------------------------------------------------- text

BAD == "<ff>"
SLASH == <<"/">>
None == [some |-> FALSE]
Some(v) == [some |-> TRUE, val |-> v]

Range(s) == {s[i] : i \in 1..Len(s)}

IsPrefix(s, t) == Len(s) <= Len(t) /\ SubSeq(t, 1, Len(s)) = s

RECURSIVE Flatten(_)
Flatten(ss) == IF ss = <<>> THEN <<>> ELSE Head(ss) \o Flatten(Tail(ss))

RECURSIVE SeqsUpTo(_, _)
\* All sequences over S of length at most n.
SeqsUpTo(S, n) ==
    IF n = 0 THEN {<<>>}
    ELSE LET prev == SeqsUpTo(S, n - 1)
         IN  prev \cup {Append(s, x) : s \in {t \in prev : Len(t) = n - 1}, x \in S}

\* Position of the first c in s, 0 when there is none.
FirstIndex(s, c) ==
    IF \E i \in 1..Len(s) : s[i] = c
    THEN CHOOSE i \in 1..Len(s) : s[i] = c /\ \A j \in 1..(i - 1) : s[j] # c
    ELSE 0

\* str::split_once: the text before and after the first c.
split_once(s, c) ==
    LET i == FirstIndex(s, c)
    IN  IF i = 0 THEN None
        ELSE Some(<<SubSeq(s, 1, i - 1), SubSeq(s, i + 1, Len(s))>>)

IsWhitespace(c) == c \in {" ", "\n"}

\* Mutant of trim: only trailing whitespace removed.
trim_end_only(s) ==
    LET keep == {i \in 1..Len(s) : ~IsWhitespace(s[i])}
    IN  IF keep = {} THEN <<>>
        ELSE SubSeq(s, 1, CHOOSE i \in keep : \A j \in keep : j <= i)

\* str::trim: leading and trailing whitespace removed.
trim(s) ==
    LET keep == {i \in 1..Len(s) : ~IsWhitespace(s[i])}
    IN  IF keep = {} THEN <<>>
        ELSE LET lo == CHOOSE i \in keep : \A j \in keep : i <= j
                 hi == CHOOSE i \in keep : \A j \in keep : j <= i
             IN  SubSeq(s, lo, hi)

\* OsStr::to_str: the text, when every byte is valid UTF-8.
to_str(s) == IF \E i \in 1..Len(s) : s[i] = BAD THEN None ELSE Some(s)

DigitValue(c) ==
    CASE c = "0" -> 0 [] c = "1" -> 1 [] c = "2" -> 2 [] c = "3" -> 3
      [] c = "4" -> 4 [] c = "5" -> 5 [] c = "6" -> 6 [] c = "7" -> 7
      [] c = "8" -> 8 [] c = "9" -> 9 [] OTHER -> -1

RECURSIVE DecimalValue(_)
DecimalValue(s) ==
    IF s = <<>> THEN 0
    ELSE 10 * DecimalValue(SubSeq(s, 1, Len(s) - 1)) + DigitValue(s[Len(s)])

\* str::parse::<u8>: an optional "+", then digits, the value at most 255.
parse_u8(s) ==
    LET digits == IF s # <<>> /\ s[1] = "+" THEN Tail(s) ELSE s
    IN  IF digits = <<>> \/ \E i \in 1..Len(digits) : DigitValue(digits[i]) < 0
        THEN None
        ELSE IF DecimalValue(digits) > U8_MAX THEN None
        ELSE Some(DecimalValue(digits))

\* ------------------------------------------------------------------- paths

RECURSIVE SplitSlash(_)
\* The segments of a path between its "/" separators.
SplitSlash(s) ==
    LET i == FirstIndex(s, "/")
    IN  IF i = 0 THEN <<s>>
        ELSE <<SubSeq(s, 1, i - 1)>> \o SplitSlash(SubSeq(s, i + 1, Len(s)))

\* Path::components without the root: empty segments and "." are dropped,
\* except a "." that starts a relative path.
Components(s) ==
    LET segs == SplitSlash(s)
        kept == {i \in 1..Len(segs) :
                    /\ segs[i] # <<>>
                    /\ (segs[i] = <<".">> => i = 1)}
        ord(k) == CHOOSE i \in kept : Cardinality({j \in kept : j < i}) = k - 1
    IN  [k \in 1..Cardinality(kept) |-> segs[ord(k)]]

\* Path::file_name: the last component when it is a normal one.
file_name(s) ==
    LET cs == Components(s)
    IN  IF cs = <<>> THEN None
        ELSE IF cs[Len(cs)] \in {<<".">>, <<".", ".">>} THEN None
        ELSE Some(cs[Len(cs)])

\* Project::name
name(path) ==
    LET f == file_name(path)
    IN  IF f.some THEN to_str(f.val) ELSE None

\* Project::full_path
full_path(path) == path

\* DirEntry::path
JoinPath(dir, entry) == dir \o SLASH \o entry

\* ------------------------------------------------------------- file system

\* A file system is a set of entries [path, kind].  Kinds:
\*   "dir"     a directory that fs::read_dir opens
\*   "noopen"  a directory that fs::read_dir cannot open
\*   "file"    anything that is not a directory
\*   "metaerr" an entry whose DirEntry::metadata fails
\*   "enterr"  an entry the ReadDir iterator yields as Err
EntryKinds == {"dir", "noopen", "file", "metaerr", "enterr"}
RootKinds == {"dir", "noopen"}

\* $HOME
HOME == <<"/", "h">>
\* The directory the configuration file names.
CONF_ROOT == <<"/", "p">>
\* format!("{home_dir}/src")
DefaultRoot == HOME \o <<"/", "s", "r", "c">>
Roots == {CONF_ROOT, DefaultRoot}
\* The names directory entries take, in the order read_dir yields them.
EntryNames == << <<"a">>, <<"b">> >>

Paths(f) == {e.path : e \in f}

NumChildren(f, dir) ==
    Cardinality({i \in 1..Len(EntryNames) : JoinPath(dir, EntryNames[i]) \in Paths(f)})

Extensions(f) ==
    {f \cup {[path |-> r, kind |-> k]} : r \in Roots \ Paths(f), k \in RootKinds}
    \cup
    {f \cup {[path |-> JoinPath(d.path, EntryNames[NumChildren(f, d.path) + 1]),
              kind |-> k]} :
        d \in {e \in f : e.kind = "dir" /\ NumChildren(f, e.path) < Len(EntryNames)},
        k \in EntryKinds}

RECURSIVE FileSystems(_)
\* Every file system of at most n entries.
FileSystems(n) ==
    IF n = 0 THEN {{}}
    ELSE LET prev == FileSystems(n - 1)
         IN  prev \cup UNION {Extensions(f) : f \in {g \in prev : Cardinality(g) = n - 1}}

Entry(f, path) == CHOOSE e \in f : e.path = path

\* The entries of a directory, as its ReadDir iterator yields them.
Children(f, dir) ==
    [i \in 1..NumChildren(f, dir) |-> Entry(f, JoinPath(dir, EntryNames[i]))]

\* fs::read_dir
read_dir(f, path) ==
    IF \E e \in f : e.path = path /\ e.kind = "dir"
    THEN [ok |-> TRUE, entries |-> Children(f, path)]
    ELSE [ok |-> FALSE, entries |-> <<>>]

\* ----------------------------------------------------------- configuration

\* The texts that follow the space of a configuration line.
DepthTexts ==
    {<<"0">>, <<"1">>, <<"2">>, <<"3">>, <<"x">>, <<>>, <<"+", "1">>,
     <<"2", "5", "6">>, <<"1", " ">>}

ConfigLines == {CONF_ROOT \o <<" ">> \o d : d \in DepthTexts} \cup {CONF_ROOT}

\* One line of the configuration file: Some(SrcDir) or None.
parse_line(line) ==
    LET sp == split_once(line, " ")
    IN  IF ~sp.some THEN None
        ELSE LET depth == parse_u8(sp.val[2])
             IN  IF ~depth.some THEN None
                 ELSE Some([path |-> sp.val[1], search_depth |-> depth.val])

RECURSIVE ParsedLines(_)
ParsedLines(lines) ==
    IF lines = <<>> THEN <<>>
    ELSE LET p == parse_line(Head(lines))
         IN  (IF p.some THEN <<p.val>> ELSE <<>>) \o ParsedLines(Tail(lines))

\* read_config_file, given the lines of the file and $HOME.
read_config_file(lines, home) ==
    ParsedLines(lines)
      \o <<[path |-> home \o <<"/", "s", "r", "c">>, search_depth |-> DEFAULT_DEPTH]>>

\* -------------------------------------------------------------------- scan

\* Metadata::is_dir
is_dir(e) == e.kind \in {"dir", "noopen"}

\* Mutant of descends: the terminal level is reached one level early.
descends_late(depth) == depth > 2

\* The test that makes get_projects_recur recurse instead of collecting.
descends(depth) == depth > 1

ScanErr == [ok |-> FALSE, res |-> <<>>]

RECURSIVE get_projects_recur(_, _, _, _)
\* get_projects_recur on the entries the iterator still holds: ok is FALSE
\* when an error was propagated with `?`.
get_projects_recur(f, entries, depth, res) ==
    IF entries = <<>> THEN [ok |-> TRUE, res |-> res]
    ELSE LET e == Head(entries)
             rest == Tail(entries)
         IN  IF e.kind = "enterr" THEN get_projects_recur(f, rest, depth, res)
             ELSE IF e.kind = "metaerr" THEN ScanErr
             ELSE IF ~is_dir(e) THEN get_projects_recur(f, rest, depth, res)
             ELSE IF descends(depth)
             THEN LET rd == read_dir(f, e.path)
                  IN  IF ~rd.ok THEN ScanErr
                      ELSE LET sub == get_projects_recur(f, rd.entries, depth - 1, res)
                           IN  IF ~sub.ok THEN ScanErr
                               ELSE get_projects_recur(f, rest, depth, sub.res)
             ELSE get_projects_recur(f, rest, depth, Append(res, e.path))

\* get_projects
get_projects(f, entries, depth) == get_projects_recur(f, entries, depth, <<>>)

\* The closure of main's filter_map: None when the directory cannot be
\* opened or its scan fails.
scan_src_dir(f, src_dir) ==
    LET rd == read_dir(f, src_dir.path)
    IN  IF ~rd.ok THEN None
        ELSE LET r == get_projects(f, rd.entries, src_dir.search_depth)
             IN  IF r.ok THEN Some(r.res) ELSE None

\* What each source directory yields to main's flatten.
scan_all(f, dirs) == [i \in 1..Len(dirs) |-> scan_src_dir(f, dirs[i])]

\* Mutant of collect_projects: one failed source directory empties the list.
collect_projects_all_or_nothing(results) ==
    IF \E i \in 1..Len(results) : ~results[i].some THEN <<>>
    ELSE Flatten([i \in 1..Len(results) |-> results[i].val])

\* filter_map(..).flatten().collect()
collect_projects(results) ==
    Flatten([i \in 1..Len(results) |->
                IF results[i].some THEN results[i].val ELSE <<>>])

\* ------------------------------------------------------------------- state

VARIABLES
    pc,              \* where main is
    outcome,         \* "running", "Ok", or the error main ends with
    fs,              \* the file system
    config,          \* the lines of the configuration file
    src_dirs,        \* read_config_file's result
    scanned,         \* per source directory, what its scan yielded
    projects,        \* main's projects
    procs,           \* the child processes spawned, in spawn order
    active_sessions, \* the session names parsed from tmux list-sessions
    fzf_stdin,       \* what was written to fzf
    fzf_result,      \* fzf's exit code and output, once it has exited
    selected,        \* selected_project.inner
    in_tmux,         \* whether $TMUX is set
    project_name,    \* switch_to_project_in_tmux's project_name
    session_exists,  \* switch_to_project_in_tmux's session_exists
    switch_session   \* the arguments of the command spawned last

vars == <<pc, outcome, fs, config, src_dirs, scanned, projects, procs,
          active_sessions, fzf_stdin, fzf_result, selected, in_tmux,
          project_name, session_exists, switch_session>>

scanVars == <<src_dirs, scanned, projects>>
runVars == <<procs, active_sessions, fzf_stdin, fzf_result, selected, in_tmux,
             project_name, session_exists, switch_session>>

InitRest ==
    /\ pc = "config"
    /\ outcome = "running"
    /\ src_dirs = <<>>
    /\ scanned = <<>>
    /\ projects = <<>>
    /\ procs = <<>>
    /\ active_sessions = <<>>
    /\ fzf_stdin = <<>>
    /\ fzf_result = None
    /\ selected = <<>>
    /\ in_tmux = FALSE
    /\ project_name = <<>>
    /\ session_exists = FALSE
    /\ switch_session = <<>>

\* Any file system and any configuration file within the bounds.
InitScan ==
    /\ fs \in FileSystems(MaxNodes)
    /\ config \in SeqsUpTo(ConfigLines, MaxLines)
    /\ InitRest

\* ------------------------------------------------------------ main, part 1

\* $XDG_CONFIG_HOME or $HOME is unset, or the file cannot be read.
ReadConfigFail ==
    /\ pc = "config"
    /\ pc' = "done"
    /\ outcome' = "ConfigError"
    /\ UNCHANGED <<fs, config, scanVars, runVars>>

ReadConfig ==
    /\ pc = "config"
    /\ src_dirs' = read_config_file(config, HOME)
    /\ pc' = "scan"
    /\ UNCHANGED <<outcome, fs, config, scanned, projects, runVars>>

CollectProjects ==
    /\ pc = "scan"
    /\ scanned' = scan_all(fs, src_dirs)
    /\ projects' = collect_projects(scan_all(fs, src_dirs))
    /\ pc' = "list"
    /\ UNCHANGED <<outcome, fs, config, src_dirs, runVars>>

\* ------------------------------------------------------- child processes

\* A child process: st is "running", "exited" (code is its
\* ExitStatus::code) or "nostart" (Command::spawn failed).
Proc(bin, cmd, st, code) == [bin |-> bin, cmd |-> cmd, st |-> st, code |-> code]

NoCmd == [sub |-> "", dir |-> <<>>, target |-> <<>>, detached |-> FALSE]
\* tmux list-sessions
list_sessions_cmd == [NoCmd EXCEPT !.sub = "list-sessions"]
\* tmux switch -t {name}
switch_cmd(nm) == [NoCmd EXCEPT !.sub = "switch", !.target = nm]
\* tmux attach -t {name}
attach_cmd(nm) == [NoCmd EXCEPT !.sub = "attach", !.target = nm]
\* tmux new-session -c {path} -s {name} [-d]
new_session_cmd(path, nm, detached) ==
    [sub |-> "new-session", dir |-> path, target |-> nm, detached |-> detached]

\* The lines tmux list-sessions may write.
SessionLines ==
    {<<"a", ":", "1">>, <<"a", "a", ":", "1">>, <<"a">>, <<":", "a">>}

RECURSIVE session_names(_)
\* The text before the first ":" of every line that has one.
session_names(lines) ==
    IF lines = <<>> THEN <<>>
    ELSE LET sp == split_once(Head(lines), ":")
         IN  (IF sp.some THEN <<sp.val[1]>> ELSE <<>>) \o session_names(Tail(lines))

RECURSIVE project_strs(_)
\* The text written to fzf: every project path that is UTF-8, each
\* followed by a newline.
project_strs(ps) ==
    IF ps = <<>> THEN <<>>
    ELSE LET t == to_str(full_path(Head(ps)))
         IN  (IF t.some THEN t.val \o <<"\n">> ELSE <<>>) \o project_strs(Tail(ps))

\* The characters fzf may write.
OutChars == {"/", ".", "a", "\n", BAD}

Selected(path) == [ok |-> TRUE, path |-> path, err |-> ""]
Failed(err) == [ok |-> FALSE, path |-> <<>>, err |-> err]

\* main's match on fzf's exit status.
selected_project_path(code, stdout) ==
    IF code = Some(0)
    THEN LET t == to_str(stdout)
         IN  IF t.some THEN Selected(trim(t.val))
             ELSE Failed("Failed to convert path from OsStr to str")
    ELSE IF code = Some(FZF_CANCELLED) THEN Failed("You did not select project.")
    ELSE IF code.some THEN Failed("fzf errored with code")
    ELSE Failed("Nothing was returned by fzf.")

\* ------------------------------------------------------------ main, part 2

\* Command::spawn of tmux list-sessions fails.
ListSessionsSpawnFail ==
    /\ pc = "list"
    /\ procs' = Append(procs, Proc("tmux", list_sessions_cmd, "nostart", None))
    /\ pc' = "done"
    /\ outcome' = "SpawnError"
    /\ UNCHANGED <<fs, config, scanVars, active_sessions, fzf_stdin, fzf_result,
                   selected, in_tmux, project_name, session_exists, switch_session>>

\* Mutant of ListSessions: the sessions are listed a second time.
ListSessionsTwice ==
    /\ pc = "list"
    /\ \E code \in {Some(0), Some(1), None}, out \in SeqsUpTo(SessionLines, MaxSessLines) :
          /\ procs' = procs \o <<Proc("tmux", list_sessions_cmd, "exited", code),
                                  Proc("tmux", list_sessions_cmd, "exited", code)>>
          /\ IF code = Some(0)
             THEN /\ active_sessions' = session_names(out)
                  /\ pc' = "fzf"
                  /\ UNCHANGED outcome
             ELSE /\ outcome' = IF code.some THEN "tmux errored with code"
                                ELSE "Nothing was returned by tmux."
                  /\ pc' = "done"
                  /\ UNCHANGED active_sessions
    /\ UNCHANGED <<fs, config, scanVars, fzf_stdin, fzf_result, selected, in_tmux,
                   project_name, session_exists, switch_session>>

\* tmux list-sessions is spawned and waited for.
ListSessions ==
    /\ pc = "list"
    /\ \E code \in {Some(0), Some(1), None}, out \in SeqsUpTo(SessionLines, MaxSessLines) :
          /\ procs' = Append(procs, Proc("tmux", list_sessions_cmd, "exited", code))
          /\ IF code = Some(0)
             THEN /\ active_sessions' = session_names(out)
                  /\ pc' = "fzf"
                  /\ UNCHANGED outcome
             ELSE /\ outcome' = IF code.some THEN "tmux errored with code"
                                ELSE "Nothing was returned by tmux."
                  /\ pc' = "done"
                  /\ UNCHANGED active_sessions
    /\ UNCHANGED <<fs, config, scanVars, fzf_stdin, fzf_result, selected, in_tmux,
                   project_name, session_exists, switch_session>>

\* Command::spawn of fzf fails, or writing to its stdin does: expect panics.
SpawnFzfFail ==
    /\ pc = "fzf"
    /\ procs' = Append(procs, Proc("fzf", NoCmd, "nostart", None))
    /\ pc' = "done"
    /\ outcome' = "panic"
    /\ UNCHANGED <<fs, config, scanVars, active_sessions, fzf_stdin, fzf_result,
                   selected, in_tmux, project_name, session_exists, switch_session>>

\* fzf is spawned and the project list written to it.
SpawnFzf ==
    /\ pc = "fzf"
    /\ procs' = Append(procs, Proc("fzf", NoCmd, "running", None))
    /\ fzf_stdin' = project_strs(projects)
    /\ pc' = "select"
    /\ UNCHANGED <<outcome, fs, config, scanVars, active_sessions, fzf_result,
                   selected, in_tmux, project_name, session_exists, switch_session>>

\* fzf exits; main matches on its status.
FzfExit ==
    /\ pc = "select"
    /\ \E code \in {Some(0), Some(1), Some(FZF_CANCELLED), None},
          out \in SeqsUpTo(OutChars, MaxOut) :
          LET r == selected_project_path(code, out)
          IN  /\ procs' = [procs EXCEPT ![Len(procs)].st = "exited",
                                        ![Len(procs)].code = code]
              /\ fzf_result' = Some([code |-> code, stdout |-> out])
              /\ IF r.ok
                 THEN /\ selected' = r.path
                      /\ pc' = "reconcile"
                      /\ UNCHANGED outcome
                 ELSE /\ outcome' = r.err
                      /\ pc' = "done"
                      /\ UNCHANGED selected
    /\ UNCHANGED <<fs, config, scanVars, active_sessions, fzf_stdin, in_tmux,
                   project_name, session_exists, switch_session>>

\* ------------------------------------------------ switch_to_project_in_tmux

\* The branch that spawns a detached new-session before the final command.
creates_detached(inside, exists) == inside /\ ~exists

\* Mutant of final_cmd: after the detached create the session is attached
\* to, not switched to.
final_cmd_attach_after_create(inside, exists, nm, path) ==
    IF inside /\ exists THEN switch_cmd(nm)
    ELSE IF inside \/ exists THEN attach_cmd(nm)
    ELSE new_session_cmd(path, nm, FALSE)

\* The command switch_session holds when it is spawned.
final_cmd(inside, exists, nm, path) ==
    IF inside THEN switch_cmd(nm)
    ELSE IF exists THEN attach_cmd(nm)
    ELSE new_session_cmd(path, nm, FALSE)

\* The command of _create_session_as_daemon.
detached_cmd(nm, path) == new_session_cmd(path, nm, TRUE)

\* Mutant of resolved_name: a missing name defaults to the empty one.
resolved_name_or_default(path) ==
    IF name(path).some THEN name(path) ELSE Some(<<>>)

\* project.name().ok_or_else(..)?
resolved_name(path) == name(path)

\* $TMUX is read, the project name derived and looked up among the sessions.
Reconcile ==
    /\ pc = "reconcile"
    /\ \E env \in BOOLEAN :
          LET n == resolved_name(selected)
          IN  /\ in_tmux' = env
              /\ IF ~n.some
                 THEN /\ outcome' = "Failed to get project name."
                      /\ pc' = "done"
                      /\ UNCHANGED <<project_name, session_exists>>
                 ELSE /\ project_name' = n.val
                      /\ session_exists' = (n.val \in Range(active_sessions))
                      /\ pc' = IF creates_detached(env, n.val \in Range(active_sessions))
                               THEN "create" ELSE "spawn"
                      /\ UNCHANGED outcome
    /\ UNCHANGED <<fs, config, scanVars, procs, active_sessions, fzf_stdin,
                   fzf_result, selected, switch_session>>

\* Inside tmux, no such session: new-session -d is spawned and not waited for.
CreateDetached ==
    /\ pc = "create"
    /\ LET t == to_str(full_path(selected))
       IN  IF ~t.some
           THEN /\ outcome' = "Failed to convert full path to str."
                /\ pc' = "done"
                /\ UNCHANGED procs
           ELSE \E started \in BOOLEAN :
                   /\ procs' = Append(procs,
                         Proc("tmux", detached_cmd(project_name, t.val),
                              IF started THEN "running" ELSE "nostart", None))
                   /\ pc' = IF started THEN "spawn" ELSE "done"
                   /\ outcome' = IF started THEN outcome ELSE "SpawnError"
    /\ UNCHANGED <<fs, config, scanVars, active_sessions, fzf_stdin, fzf_result,
                   selected, in_tmux, project_name, session_exists, switch_session>>

\* switch_session.spawn()?; Ok(())
FinalSpawn ==
    /\ pc = "spawn"
    /\ LET t == to_str(full_path(selected))
       IN  IF ~t.some /\ ~in_tmux /\ ~session_exists
           THEN /\ outcome' = "Failed to convert full path to str."
                /\ pc' = "done"
                /\ UNCHANGED <<procs, switch_session>>
           ELSE \E started \in BOOLEAN :
                   LET cmd == final_cmd(in_tmux, session_exists, project_name, selected)
                   IN  /\ switch_session' = cmd
                       /\ procs' = Append(procs,
                             Proc("tmux", cmd, IF started THEN "running" ELSE "nostart", None))
                       /\ pc' = "done"
                       /\ outcome' = IF started THEN "Ok" ELSE "SpawnError"
    /\ UNCHANGED <<fs, config, scanVars, active_sessions, fzf_stdin, fzf_result,
                   selected, in_tmux, project_name, session_exists>>

\* A tmux child that nobody waits for exits, with any status.
ChildExit ==
    /\ \E i \in 1..Len(procs), code \in {Some(0), Some(1)} :
          /\ procs[i].bin = "tmux"
          /\ procs[i].st = "running"
          /\ procs' = [procs EXCEPT ![i].st = "exited", ![i].code = code]
    /\ UNCHANGED <<pc, outcome, fs, config, scanVars, active_sessions, fzf_stdin,
                   fzf_result, selected, in_tmux, project_name, session_exists,
                   switch_session>>

\* ---------------------------------------------------------- specifications

NextScan == ReadConfigFail \/ ReadConfig \/ CollectProjects

\* The scan alone, over every file system and configuration file.
SpecScan == InitScan /\ [][NextScan]_vars

\* Two directories of projects under /p, none under $HOME/src.
SampleFS ==
    {[path |-> CONF_ROOT, kind |-> "dir"],
     [path |-> JoinPath(CONF_ROOT, <<"a">>), kind |-> "dir"],
     [path |-> JoinPath(CONF_ROOT, <<"b">>), kind |-> "file"]}

Init ==
    /\ fs \in {SampleFS, {}}
    /\ config \in {<<>>, <<CONF_ROOT \o <<" ", "1">>>>}
    /\ InitRest

Next ==
    \/ ReadConfigFail
    \/ ReadConfig
    \/ CollectProjects
    \/ ListSessionsSpawnFail
    \/ ListSessions
    \/ SpawnFzfFail
    \/ SpawnFzf
    \/ FzfExit
    \/ Reconcile
    \/ CreateDetached
    \/ FinalSpawn
    \/ ChildExit

\* The whole run.
Spec == Init /\ [][Next]_vars

\* ------------------------------------------------------ claims: the scan

Scanned == pc = "list"

\* Directory levels between a source directory and a path below it.
Level(path, root) ==
    Cardinality({k \in (Len(root) + 1)..Len(path) : path[k] = "/"})

IsBelow(path, root) == IsPrefix(root \o SLASH, path)

\* C2: every project the scan of a source directory of depth d >= 1
\* returns is a directory exactly d levels below that source directory.
C2_ProjectsAtDepth ==
    Scanned =>
        \A i \in 1..Len(src_dirs) :
            (src_dirs[i].search_depth >= 1 /\ scanned[i].some) =>
                \A k \in 1..Len(scanned[i].val) :
                    LET p == scanned[i].val[k]
                    IN  /\ IsBelow(p, src_dirs[i].path)
                        /\ Level(p, src_dirs[i].path) = src_dirs[i].search_depth
                        /\ \E e \in fs : e.path = p /\ e.kind \in {"dir", "noopen"}

\* A depth-2 scan that passed a first-level directory and a non-directory
\* and returned a project.
C2_Witness ==
    /\ Scanned
    /\ \E i \in 1..Len(src_dirs) :
          /\ src_dirs[i].search_depth = 2
          /\ scanned[i].some
          /\ scanned[i].val # <<>>
          /\ \E e \in fs : IsBelow(e.path, src_dirs[i].path) /\ e.kind = "file"

\* Projects contributed by the source directories before the i-th.
RECURSIVE Offset(_)
Offset(i) ==
    IF i <= 1 THEN 0
    ELSE Offset(i - 1)
           + (IF scanned[i - 1].some THEN Len(scanned[i - 1].val) ELSE 0)

\* C3: a source directory that cannot be opened or whose scan fails
\* contributes nothing; every other one contributes its own projects, in
\* its own order, and the run goes on.
C3_RootFailureIsLocal ==
    Scanned =>
        /\ outcome = "running"
        /\ Len(scanned) = Len(src_dirs)
        /\ Len(projects) = Offset(Len(scanned) + 1)
        /\ \A i \in 1..Len(scanned) :
              /\ scanned[i] = scan_src_dir(fs, src_dirs[i])
              /\ scanned[i].some =>
                    SubSeq(projects, Offset(i) + 1, Offset(i) + Len(scanned[i].val))
                        = scanned[i].val

\* One source directory failed and a later one still contributed projects.
C3_Witness ==
    /\ Scanned
    /\ \E i, j \in 1..Len(scanned) :
          /\ i < j
          /\ ~scanned[i].some
          /\ scanned[j].some
          /\ scanned[j].val # <<>>
          /\ projects = scanned[j].val

\* No directory above the terminal level of a source directory fails to open.
OpensThroughout(root, depth) ==
    /\ read_dir(fs, root).ok
    /\ \A e \in fs :
          (IsBelow(e.path, root) /\ Level(e.path, root) < depth) => e.kind # "noopen"

\* C4: an entry whose metadata cannot be read is skipped and nothing else:
\* every directory at the terminal level of a source directory that opens
\* throughout is returned.
C4_MetadataFailureSkipped ==
    Scanned =>
        \A i \in 1..Len(src_dirs) :
            (src_dirs[i].search_depth >= 1
               /\ OpensThroughout(src_dirs[i].path, src_dirs[i].search_depth)) =>
                /\ scanned[i].some
                /\ \A e \in fs :
                      (/\ IsBelow(e.path, src_dirs[i].path)
                       /\ Level(e.path, src_dirs[i].path) = src_dirs[i].search_depth
                       /\ e.kind \in {"dir", "noopen"})
                      => e.path \in Range(scanned[i].val)

\* C6: no source directory has search depth 0.
C6_DepthAtLeastOne ==
    \A i \in 1..Len(src_dirs) : src_dirs[i].search_depth >= 1

\* ------------------------------------------------------- claims: the run

\* The tmux commands switch_to_project_in_tmux tried to spawn, in order.
Emitted ==
    IF Len(procs) <= 2 THEN <<>>
    ELSE [i \in 1..(Len(procs) - 2) |-> procs[i + 2].cmd]

SelectionErrors ==
    {"Failed to convert path from OsStr to str", "You did not select project.",
     "fzf errored with code", "Nothing was returned by fzf."}

\* switch_to_project_in_tmux was entered and got past the project name.
Reconciled == fzf_result.some /\ pc # "reconcile" /\ outcome \notin SelectionErrors

\* The decision table of the session reconciler.
DecisionTable(inside, exists, nm, path) ==
    CASE inside /\ exists   -> <<switch_cmd(nm)>>
      [] inside /\ ~exists  -> <<new_session_cmd(path, nm, TRUE), switch_cmd(nm)>>
      [] ~inside /\ exists  -> <<attach_cmd(nm)>>
      [] ~inside /\ ~exists -> <<new_session_cmd(path, nm, FALSE)>>

C5_CommandFailureIsFatal ==
    outcome = "Ok" =>
        \A i \in 3..Len(procs) :
            /\ procs[i].st # "nostart"
            /\ procs[i].st = "exited" => procs[i].code = Some(0)

\* t is s without its leading and trailing whitespace.
IsTrimOf(t, s) ==
    /\ \E i \in 0..Len(s) :
          /\ i + Len(t) <= Len(s)
          /\ SubSeq(s, i + 1, i + Len(t)) = t
          /\ \A k \in (1..i) \cup ((i + Len(t) + 1)..Len(s)) : s[k] \in {" ", "\n"}
    /\ t # <<>> => t[1] \notin {" ", "\n"} /\ t[Len(t)] \notin {" ", "\n"}

\* C7 as claimed: exit code 0 yields the trimmed output as the project
\* path whatever the output is.
C7_AnyOutputSelects ==
    fzf_result.some =>
        LET code == fzf_result.val.code
            out == fzf_result.val.stdout
        IN  /\ code = Some(FZF_CANCELLED) => outcome = "You did not select project."
            /\ code = Some(0) =>
                  /\ outcome \notin SelectionErrors
                  /\ IsTrimOf(selected, out)
            /\ code \notin {Some(0), Some(FZF_CANCELLED)} =>
                  outcome \in {"fzf errored with code", "Nothing was returned by fzf."}
            /\ outcome \in SelectionErrors => Emitted = <<>>

\* C7: exit code 130 is "no selection" whatever the output; exit code 0
\* yields the trimmed output as the project path when the output is valid
\* UTF-8 and a conversion error when it is not; any other code, or none,
\* is an fzf error; after every failure no tmux command is tried.
C7_ExitStatusMapping ==
    fzf_result.some =>
        LET code == fzf_result.val.code
            out == fzf_result.val.stdout
        IN  /\ code = Some(FZF_CANCELLED) => outcome = "You did not select project."
            /\ (code = Some(0) /\ BAD \notin Range(out)) =>
                  /\ outcome \notin SelectionErrors
                  /\ IsTrimOf(selected, out)
            /\ (code = Some(0) /\ BAD \in Range(out)) =>
                  outcome = "Failed to convert path from OsStr to str"
            /\ (code.some /\ code \notin {Some(0), Some(FZF_CANCELLED)}) =>
                  outcome = "fzf errored with code"
            /\ ~code.some => outcome = "Nothing was returned by fzf."
            /\ outcome \in SelectionErrors => (Emitted = <<>> /\ pc = "done")

\* fzf exited 0 with whitespace around a path, which was selected trimmed.
C7_Witness ==
    /\ fzf_result.some
    /\ fzf_result.val.code = Some(0)
    /\ fzf_result.val.stdout = <<"/", "a", "\n">>
    /\ selected = <<"/", "a">>
    /\ pc = "reconcile"

\* C8: a chosen path without a final segment ends the run with the name
\* error and no tmux command; a name that is compared is never empty.
C8_NoNameIsFatal ==
    (fzf_result.some /\ pc \notin {"select", "reconcile"}
       /\ outcome \notin SelectionErrors) =>
        /\ ~file_name(selected).some =>
              /\ outcome = "Failed to get project name."
              /\ Emitted = <<>>
              /\ pc = "done"
        /\ selected \in {<<>>, <<"/">>} => outcome = "Failed to get project name."
        /\ file_name(selected).some =>
              /\ project_name # <<>>
              /\ outcome # "Failed to get project name."

\* fzf exited 0 with blank output: the empty path has no name.
C8_Witness ==
    /\ fzf_result.some
    /\ fzf_result.val.code = Some(0)
    /\ fzf_result.val.stdout = <<"\n">>
    /\ selected = <<>>
    /\ outcome = "Failed to get project name."

ListSessionsAt == {i \in 1..Len(procs) : procs[i].cmd.sub = "list-sessions"}
FzfAt == {i \in 1..Len(procs) : procs[i].bin = "fzf"}
ReachedReconcile == fzf_result.some /\ outcome \notin SelectionErrors

C10_CreateCompletesBeforeSwitch ==
    \A i, j \in 1..Len(procs) :
        (/\ i < j
         /\ procs[i].cmd.sub = "new-session"
         /\ procs[i].cmd.detached
         /\ procs[i].st # "nostart"
         /\ procs[j].cmd.sub = "switch"
         /\ procs[j].st # "nostart") => procs[i].st = "exited"

====
